---- MODULE Spec2Model ----
(***************************************************************************)
(* Penuel Stopover - contact page: operating hours and open/closed status, *)
(* state machine of ContactManager (src/js/contact-manager.js); catalog    *)
(* pages: RetailManager (src/js/retail-manager.js) and ServicesManager     *)
(* (src/js/services-manager.js).                                           *)
(*                                                                         *)
(* Strings that the code parses (the "HH:MM" time strings) are sequences   *)
(* of one-character strings, so that split(':') and parseInt are computed  *)
(* the way the JavaScript computes them.  JavaScript numbers are records   *)
(* [nan, val], so that NaN and its comparisons are part of the model.      *)
(***************************************************************************)
EXTENDS Integers, Sequences, FiniteSets, TLC

VARIABLES
    hoursData,      \* this.hoursData: [kind, entries], kind "null" until a fetch stores it
    currentStatus,  \* this.currentStatus: function unit -> "open" | "closed"
    cards,          \* the .hours-card elements of #hours-container, in DOM order
    view,           \* what #hours-container shows: "blank", "loading", "cards", "empty"
    pc,             \* position of init(): "constructed", "fetching", "fetched", "ready"
    now,            \* the wall clock: [day, minutes] (minutes since midnight)
    evaluations,    \* evaluations of the held schedule at the instant `now`:
                    \* "none", "once" or "repeated" (twice or more)
    form,           \* the inquiry form: [button], the state of its submit button
    probe,          \* the arguments and the result of one application of a pure
                    \* function, e.g. one open/closed comparison: [open, close, result]
    appState,       \* APP_STATE: the catalog lists and their filtered lists
    retail,         \* the RetailManager: position of init(), active categories,
                    \* the response received, what #menu-grid and #retail-list show
    services,       \* the ServicesManager, likewise
    admin,          \* the AdminManager: position, tokens, dashboard, changedItems,
                    \* the save button and the save request in flight
    chat,           \* the index-page chat: chatState, #chatMessages, #chatSend and
                    \* the fetch in flight
    analytics,      \* analyticsQueue and the batches sent
    widget          \* a floating chat widget: window, body scroll lock, viewport

\* The variables the contact page's hours handlers leave alone.
formVars == <<form>>
probeVars == <<probe>>
contactVars == <<hoursData, currentStatus, cards, view, pc, now, evaluations>>
catalogVars == <<appState, retail, services>>

adminVars == <<admin>>
chatVars == <<chat, analytics>>
widgetVars == <<widget>>
siteVars == <<admin, chat, analytics, widget>>

vars == <<hoursData, currentStatus, cards, view, pc, now, evaluations, form, probe,
          appState, retail, services, admin, chat, analytics, widget>>

----------------------------------------------------------------------------
(* Bounds of the model *)

\* Largest number of business units in a fetched schedule.
MaxUnits == 2

\* Largest number of chat messages the visitor sends.
MaxSends == 2

\* Largest number of analytics events waiting in the queue.
MaxQueue == 6

----------------------------------------------------------------------------
(* JavaScript values *)

Num(n) == [nan |-> FALSE, val |-> n]
NaN == [nan |-> TRUE, val |-> 0]
JsAdd(a, b) == IF a.nan \/ b.nan THEN NaN ELSE Num(a.val + b.val)
JsMul(a, b) == IF a.nan \/ b.nan THEN NaN ELSE Num(a.val * b.val)
JsGeq(a, b) == ~a.nan /\ ~b.nan /\ a.val >= b.val
JsLt(a, b) == ~a.nan /\ ~b.nan /\ a.val < b.val

\* A string is truthy iff it is not empty; a missing field reads as falsy too.
Truthy(str) == Len(str) > 0

\* A JSON number (non-zero, so truthy) where a string is expected: the
\* one-element sequence <<"number">>, which is no sequence of characters.
JsonNumber == <<"number">>
IsString(value) == value # JsonNumber

DigitChars == <<"0", "1", "2", "3", "4", "5", "6", "7", "8", "9">>
IsDigit(c) == \E i \in 1..10 : DigitChars[i] = c
DigitVal(c) == (CHOOSE i \in 1..10 : DigitChars[i] = c) - 1

\* String.prototype.split(sep) for a one-character separator.
RECURSIVE SplitFrom(_, _, _)
SplitFrom(str, sep, cur) ==
    IF str = <<>> THEN <<cur>>
    ELSE IF Head(str) = sep THEN <<cur>> \o SplitFrom(Tail(str), sep, <<>>)
    ELSE SplitFrom(Tail(str), sep, Append(cur, Head(str)))
Split(str, sep) == SplitFrom(str, sep, <<>>)

\* parseInt(str): leading blanks skipped, optional sign, then the longest run
\* of decimal digits; NaN when there is no digit.
RECURSIVE SkipBlanks(_)
SkipBlanks(str) ==
    IF str # <<>> /\ Head(str) = " " THEN SkipBlanks(Tail(str)) ELSE str
RECURSIVE DigitsValue(_, _)
DigitsValue(str, acc) ==
    IF str = <<>> \/ ~IsDigit(Head(str)) THEN acc
    ELSE DigitsValue(Tail(str), acc * 10 + DigitVal(Head(str)))
ParseInt(str) ==
    LET s == SkipBlanks(str)
        neg == s # <<>> /\ Head(s) = "-"
        t == IF s # <<>> /\ Head(s) \in {"-", "+"} THEN Tail(s) ELSE s
    IN  IF t = <<>> \/ ~IsDigit(Head(t)) THEN NaN
        ELSE Num((IF neg THEN -1 ELSE 1) * DigitsValue(t, 0))

----------------------------------------------------------------------------
(* Program constants *)

\* The weekday names, in calendar order.
Days == <<"Monday", "Tuesday", "Wednesday", "Thursday", "Friday", "Saturday", "Sunday">>
DaySet == {Days[i] : i \in 1..Len(Days)}

\* The units renderOperatingHours has a card configuration for.
UnitsConfig == {"restaurant", "supermarket", "service_bay", "car_wash"}

\* The unit updateStatusDisplay takes for the card at each position.
DisplayUnits == <<"restaurant", "supermarket", "service_bay", "car_wash">>

----------------------------------------------------------------------------
(* ContactManager *)

NullHours == [kind |-> "null", entries |-> <<>>]
EmptyStatus == [u \in {} |-> "closed"]

\* timeStringToNumber(timeStr): "HH:MM" -> HHMM.
TimeStringToNumber(timeStr) ==
    IF ~Truthy(timeStr) THEN Num(0)
    ELSE LET parts == Split(timeStr, ":")
             hours == ParseInt(parts[1])
             minutes == IF Len(parts) >= 2 THEN ParseInt(parts[2]) ELSE NaN
         IN  JsAdd(JsMul(hours, Num(100)), minutes)

\* Variant: the current time as minutes since midnight, hours * 60 + minutes.
CurrentTimeInMinutes(instant) ==
    Num((instant.minutes \div 60) * 60 + (instant.minutes % 60))
\* currentTime of checkCurrentStatus: getHours() * 100 + getMinutes().
CurrentTime(instant) ==
    Num((instant.minutes \div 60) * 100 + (instant.minutes % 60))

\* hours[dayOfWeek] || hours['default']
HasKey(hours, key) == key \in DOMAIN hours
\* Variant: no fallback to the default window.
DayHoursNamedOnly(hours, dayOfWeek) ==
    IF HasKey(hours, dayOfWeek) THEN [found |-> TRUE, window |-> hours[dayOfWeek]]
    ELSE [found |-> FALSE, window |-> [open |-> <<>>, close |-> <<>>]]
\* Variant: the operands of || swapped, hours['default'] || hours[dayOfWeek].
DayHoursDefaultFirst(hours, dayOfWeek) ==
    IF HasKey(hours, "default") THEN [found |-> TRUE, window |-> hours["default"]]
    ELSE IF HasKey(hours, dayOfWeek) THEN [found |-> TRUE, window |-> hours[dayOfWeek]]
    ELSE [found |-> FALSE, window |-> [open |-> <<>>, close |-> <<>>]]
DayHours(hours, dayOfWeek) ==
    IF HasKey(hours, dayOfWeek) THEN [found |-> TRUE, window |-> hours[dayOfWeek]]
    ELSE IF HasKey(hours, "default") THEN [found |-> TRUE, window |-> hours["default"]]
    ELSE [found |-> FALSE, window |-> [open |-> <<>>, close |-> <<>>]]

\* Variant: the closing minute compared with <= instead of <.
IsOpenInclusiveClose(currentTime, openTime, closeTime) ==
    JsGeq(currentTime, openTime) /\ JsGeq(closeTime, currentTime)
\* Variant: a window with open > close taken as spanning midnight.
IsOpenOvernight(currentTime, openTime, closeTime) ==
    IF JsLt(closeTime, openTime)
    THEN JsGeq(currentTime, openTime) \/ JsLt(currentTime, closeTime)
    ELSE JsGeq(currentTime, openTime) /\ JsLt(currentTime, closeTime)
\* isOpen of checkCurrentStatus, from the three HHMM numbers.
IsOpen(currentTime, openTime, closeTime) ==
    JsGeq(currentTime, openTime) /\ JsLt(currentTime, closeTime)

\* timeStr.split(':') is a TypeError when timeStr is not a string.
SplitThrows(timeStr) == ~IsString(timeStr)

\* The if of the forEach body of checkCurrentStatus: the status it assigns for
\* the day hours found, "none" when it assigns nothing, "throw" when
\* timeStringToNumber throws.
WindowStatus(dayHours, currentTime) ==
    IF dayHours.found /\ Truthy(dayHours.window.open) /\ Truthy(dayHours.window.close)
    THEN IF SplitThrows(dayHours.window.open) \/ SplitThrows(dayHours.window.close)
         THEN "throw"
         ELSE IF IsOpen(currentTime,
                        TimeStringToNumber(dayHours.window.open),
                        TimeStringToNumber(dayHours.window.close))
              THEN "open" ELSE "closed"
    ELSE "none"

\* Variant: a unit with an emergency text counts as open.
UnitStatusEmergencyOpen(hours, currentTime, dayOfWeek) ==
    IF HasKey(hours, "emergency") THEN "open"
    ELSE WindowStatus(DayHours(hours, dayOfWeek), currentTime)
\* The forEach body of checkCurrentStatus for one unit.
UnitStatus(hours, currentTime, dayOfWeek) ==
    WindowStatus(DayHours(hours, dayOfWeek), currentTime)

SetStatus(status, unit, value) ==
    [u \in DOMAIN status \cup {unit} |-> IF u = unit THEN value ELSE status[u]]

\* Object.entries(this.hoursData).forEach(...) of checkCurrentStatus: the
\* status mapping it leaves; an exception ends the loop at the unit that throws.
RECURSIVE EvaluateEntries(_, _, _, _)
EvaluateEntries(entries, status, currentTime, dayOfWeek) ==
    IF entries = <<>> THEN status
    ELSE LET e == Head(entries)
             s == UnitStatus(e.hours, currentTime, dayOfWeek)
         IN  IF s = "throw" THEN status
             ELSE EvaluateEntries(Tail(entries),
                                  IF s = "none" THEN status ELSE SetStatus(status, e.unit, s),
                                  currentTime, dayOfWeek)

\* The forEach of checkCurrentStatus ends with an exception.
EvaluationThrows(entries, currentTime, dayOfWeek) ==
    \E i \in 1..Len(entries) : UnitStatus(entries[i].hours, currentTime, dayOfWeek) = "throw"

\* A line of a card: a day line carries the day and its two time strings, the
\* emergency line carries the text.
DayLine(day, window) ==
    [kind |-> "day", day |-> day, open |-> window.open, close |-> window.close, text |-> ""]
EmergencyLine(text) ==
    [kind |-> "emergency", day |-> "", open |-> <<>>, close |-> <<>>, text |-> text]

\* Variant: a day without a named window shows the default window.
RECURSIVE DayLinesWithDefaultFrom(_, _)
DayLinesWithDefaultFrom(hours, i) ==
    IF i > Len(Days) THEN <<>>
    ELSE LET dayHours == DayHours(hours, Days[i])
         IN  (IF dayHours.found /\ Truthy(dayHours.window.open) /\ Truthy(dayHours.window.close)
              THEN <<DayLine(Days[i], dayHours.window)>> ELSE <<>>)
                 \o DayLinesWithDefaultFrom(hours, i + 1)
DayLinesWithDefault(hours) == DayLinesWithDefaultFrom(hours, 1)

\* days.forEach of createHoursCard: the day lines, from the day at position i on.
RECURSIVE DayLinesFrom(_, _)
DayLinesFrom(hours, i) ==
    IF i > Len(Days) THEN <<>>
    ELSE (IF /\ HasKey(hours, Days[i])
             /\ Truthy(hours[Days[i]].open)
             /\ Truthy(hours[Days[i]].close)
          THEN <<DayLine(Days[i], hours[Days[i]])>> ELSE <<>>)
             \o DayLinesFrom(hours, i + 1)
DayLines(hours) == DayLinesFrom(hours, 1)

\* if (hours.emergency) of createHoursCard.
EmergencyLines(hours) ==
    IF HasKey(hours, "emergency") THEN <<EmergencyLine(hours["emergency"])>> ELSE <<>>

\* Variant: the emergency line put before the day lines.
HoursHtmlEmergencyFirst(hours) == EmergencyLines(hours) \o DayLines(hours)
\* hoursHtml of createHoursCard.
HoursHtml(hours) == DayLines(hours) \o EmergencyLines(hours)

\* createHoursCard: the lines and the status badge of a new card.
CreateHoursCard(unit, status, hours) ==
    [unit |-> unit,
     lines |-> HoursHtml(hours),
     badge |-> IF unit \in DOMAIN status THEN status[unit] ELSE "open"]

\* renderOperatingHours: one card per configured unit, in the order of the entries.
RECURSIVE RenderOperatingHours(_, _)
RenderOperatingHours(entries, status) ==
    IF entries = <<>> THEN <<>>
    ELSE IF Head(entries).unit \in UnitsConfig
         THEN <<CreateHoursCard(Head(entries).unit, status, Head(entries).hours)>>
                  \o RenderOperatingHours(Tail(entries), status)
         ELSE RenderOperatingHours(Tail(entries), status)

\* Variant: the badge class toggled instead of set.
UpdatedBadgeToggled(card, index, status) ==
    IF index <= Len(DisplayUnits) /\ DisplayUnits[index] \in DOMAIN status
    THEN IF card.badge = "open" THEN "closed" ELSE "open"
    ELSE card.badge
\* The badge updateStatusDisplay leaves on the card at position index (from 1).
UpdatedBadge(card, index, status) ==
    IF index <= Len(DisplayUnits) /\ DisplayUnits[index] \in DOMAIN status
    THEN status[DisplayUnits[index]]
    ELSE card.badge

\* updateStatusDisplay: every card takes the status of units[index].
UpdateStatusDisplay(cardSeq, status) ==
    [i \in 1..Len(cardSeq) |->
        [cardSeq[i] EXCEPT !.badge = UpdatedBadge(cardSeq[i], i, status)]]

----------------------------------------------------------------------------
(* Inputs: the schedules the backend may answer with, and the clock *)

\* The "HH:MM" string of a minute of the day, zero-padded.
TimeString(m) ==
    <<DigitChars[((m \div 60) \div 10) + 1], DigitChars[((m \div 60) % 10) + 1], ":",
      DigitChars[((m % 60) \div 10) + 1], DigitChars[((m % 60) % 10) + 1]>>

\* 07:00, 08:00 and 20:00 as minutes of the day.
GoodMinutes == {7 * 60, 8 * 60, 20 * 60}

\* Strings that are no time of the day: "25:70", "ab:cd", and the missing field.
BadTimeStrings == {<<"2", "5", ":", "7", "0">>, <<"a", "b", ":", "c", "d">>, <<>>}

Window(o, c) == [open |-> o, close |-> c]

\* Every pair of good times: open < close, open = close and open > close.
GoodWindows == {Window(TimeString(o), TimeString(c)) : o \in GoodMinutes, c \in GoodMinutes}
BadWindows ==
    {Window(TimeString(8 * 60), b) : b \in BadTimeStrings}
        \cup {Window(b, TimeString(20 * 60)) : b \in BadTimeStrings}
Windows == GoodWindows \cup BadWindows

EmergencyText == "24/7 on-call"

\* A unit's schedule: a function from its keys (weekday names, "default",
\* "emergency") to day windows and the emergency text.
UnitSchedule(named, default, emergency) ==
    [k \in {x.key : x \in named} \cup {"default" : x \in default} \cup {"emergency" : x \in emergency} |->
        IF k = "emergency" THEN EmergencyText
        ELSE IF k = "default" THEN (CHOOSE x \in default : TRUE)
        ELSE (CHOOSE x \in named : x.key = k).window]

\* At most one named day (Monday), an optional default, an optional emergency text.
OptionalOf(S) == {{}} \cup {{x} : x \in S}
UnitSchedules ==
    {UnitSchedule(n, d, e) :
        n \in OptionalOf({[key |-> "Monday", window |-> w] : w \in Windows}),
        d \in OptionalOf(Windows),
        e \in OptionalOf({EmergencyText})}

\* The unit schedules of the schedules with several units.
SimpleUnitSchedules ==
    {UnitSchedule({[key |-> "Monday", window |-> Window(TimeString(7 * 60), TimeString(20 * 60))]}, {}, {}),
     UnitSchedule({}, {Window(TimeString(8 * 60), TimeString(20 * 60))}, {}),
     UnitSchedule({[key |-> "Monday", window |-> Window(TimeString(8 * 60), <<"2", "5", ":", "7", "0">>)]}, {}, {})}

\* Two units with a card configuration and one without.
ScheduleUnits == {"restaurant", "supermarket", "kiosk"}

\* The key orders of a schedule object: sequences of distinct units.
UnitOrders(n) ==
    {o \in [1..n -> ScheduleUnits] : \A i, j \in 1..n : i # j => o[i] # o[j]}

\* The schedules: the empty one, one unit with any unit schedule, and up to
\* MaxUnits units with the simple unit schedules.
Schedules ==
    {<<>>}
    \cup {<<[unit |-> "restaurant", hours |-> h]>> : h \in UnitSchedules}
    \cup UNION {
            {[i \in 1..n |-> [unit |-> o[i], hours |-> hs[i]]] :
                o \in UnitOrders(n), hs \in [1..n -> SimpleUnitSchedules]}
            : n \in 1..MaxUnits}

\* The schedules of the day lines: one unit with any windows on Monday,
\* Wednesday and Sunday (open < close, open > close, a missing open), an
\* optional default and an optional emergency text.
DescribeDays == {"Monday", "Wednesday", "Sunday"}
DescribeWindows ==
    {Window(TimeString(7 * 60), TimeString(20 * 60)),
     Window(TimeString(20 * 60), TimeString(7 * 60)),
     Window(<<>>, TimeString(20 * 60))}
DescribeUnitSchedules ==
    UNION {
        {UnitSchedule({[key |-> day, window |-> w[day]] : day \in named}, d, e) :
            w \in [named -> DescribeWindows],
            d \in OptionalOf({Window(TimeString(8 * 60), TimeString(20 * 60))}),
            e \in OptionalOf({EmergencyText})}
        : named \in SUBSET DescribeDays}
DescribeSchedules == {<<[unit |-> "restaurant", hours |-> h]>> : h \in DescribeUnitSchedules}

\* The schedules of any JSON answer: up to MaxUnits units, each with a Monday
\* window, with a default window, or with a Monday window that has a number in
\* place of its open string.
PageUnitSchedules ==
    {UnitSchedule({[key |-> "Monday", window |-> Window(TimeString(7 * 60), TimeString(20 * 60))]}, {}, {}),
     UnitSchedule({}, {Window(TimeString(8 * 60), TimeString(20 * 60))}, {}),
     UnitSchedule({[key |-> "Monday", window |-> Window(JsonNumber, TimeString(20 * 60))]}, {}, {})}
PageSchedules ==
    {<<>>}
    \cup UNION {
            {[i \in 1..n |-> [unit |-> o[i], hours |-> hs[i]]] :
                o \in UnitOrders(n), hs \in [1..n -> PageUnitSchedules]}
            : n \in 1..MaxUnits}

\* The instants the clock shows: every weekday, at each good time and one minute before.
NowMinutes == GoodMinutes \cup {m - 1 : m \in GoodMinutes}
Instants == [day : DaySet, minutes : NowMinutes]

\* The instant that follows an instant; Monday follows Sunday.
NextDay(day) == Days[((CHOOSE i \in 1..Len(Days) : Days[i] = day) % Len(Days)) + 1]
Earliest(minutes) == CHOOSE m \in minutes : \A x \in minutes : m <= x
NextInstant(instant) ==
    LET later == {m \in NowMinutes : m > instant.minutes}
    IN  IF later # {} THEN [day |-> instant.day, minutes |-> Earliest(later)]
        ELSE [day |-> NextDay(instant.day), minutes |-> Earliest(NowMinutes)]

----------------------------------------------------------------------------
(* Operations *)

\* The category 'all' of the filter buttons.
All == <<"a", "l", "l">>

\* A list of the backend's answer: present (truthy) with its items, or missing.
Missing == [present |-> FALSE, items |-> <<>>]
Present(items) == [present |-> TRUE, items |-> items]

\* APP_STATE before any fetch: every list empty.
EmptyAppState ==
    [menu |-> <<>>, filteredMenu |-> <<>>, products |-> <<>>, filteredProducts |-> <<>>,
     services |-> <<>>, filteredServices |-> <<>>,
     washPackages |-> <<>>, filteredWashPackages |-> <<>>]

\* No answer received.
NoRetailResponse == [arrived |-> FALSE, menu |-> Missing, products |-> Missing]
NoServicesResponse == [arrived |-> FALSE, services |-> Missing, wash_packages |-> Missing]

\* new RetailManager(): both active categories 'all'.
NewRetailManager ==
    [pc |-> "constructed", activeMenuCategory |-> All, activeRetailCategory |-> All,
     response |-> NoRetailResponse, menuView |-> "blank", retailView |-> "blank"]

\* new ServicesManager(): both active categories 'all'.
NewServicesManager ==
    [pc |-> "constructed", activeServiceCategory |-> All, activeWashCategory |-> All,
     response |-> NoServicesResponse, servicesView |-> "blank", washView |-> "blank"]

InitCatalog ==
    /\ appState = EmptyAppState
    /\ retail = NewRetailManager
    /\ services = NewServicesManager

\* No token: localStorage.getItem gives null.
NoToken == "null"

\* No save request built: the payload with nothing in it.
NoPayload == [items |-> <<>>, settings |-> <<>>, hours |-> <<>>]

\* No answer of the backend received.
NoAnswer == [arrived |-> FALSE, success |-> FALSE, token |-> NoToken]

\* The value of a text input.
Text(str) == [text |-> str]

\* new AdminManager() with the token found in localStorage; the dashboard of
\* the page is hidden and the login screen shown.
NewAdminManager(stored) ==
    [pc |-> "constructed", storedToken |-> stored, adminToken |-> stored,
     dashboard |-> "hidden", loginBtn |-> "enabled", authError |-> "hidden",
     answer |-> NoAnswer, loaded |-> FALSE,
     phoneInput |-> Text(""), emailInput |-> Text(""),
     changedItems |-> <<>>, saveBtn |-> "enabled", toast |-> "none",
     saving |-> FALSE, payload |-> NoPayload]

\* chatState and the chat elements after initAI().
NewChat ==
    [isLoading |-> FALSE, messages |-> <<>>, shown |-> <<>>,
     sendBtn |-> "enabled", requests |-> <<>>,
     last |-> [message |-> "", loading |-> FALSE]]

\* analyticsQueue = [] and no batch sent.
NewAnalytics == [queue |-> <<>>, batch |-> 0]

\* A floating chat widget as loaded: the window hidden, the body unlocked.
NewWidget(breakpoint, innerWidth) ==
    [breakpoint |-> breakpoint, innerWidth |-> innerWidth,
     hidden |-> TRUE, active |-> FALSE,
     bodyOpen |-> FALSE, bodyTop |-> <<>>, scrollPosAttr |-> <<>>, pageYOffset |-> 0]

InitSite ==
    /\ admin = NewAdminManager(NoToken)
    /\ chat = NewChat
    /\ analytics = NewAnalytics
    /\ widget = NewWidget(480, 1024)

\* The inquiry form before any submission; no comparison probed.
IdleForm == [button |-> "enabled"]
NoProbe == [open |-> <<>>, close |-> <<>>, result |-> "none"]

InitContact ==
    /\ hoursData = NullHours
    /\ currentStatus = EmptyStatus
    /\ cards = <<>>
    /\ view = "blank"
    /\ pc = "constructed"
    /\ now \in Instants
    /\ evaluations = "none"
    /\ form = IdleForm

Init ==
    /\ InitContact
    /\ probe = NoProbe
    /\ InitCatalog
    /\ InitSite

\* init(): setupEventListeners() starts the timer, fetchOperatingHours()
\* shows the loading state and awaits the backend.
InitStart ==
    /\ pc = "constructed"
    /\ pc' = "fetching"
    /\ view' = "loading"
    /\ cards' = <<>>
    /\ UNCHANGED <<hoursData, currentStatus, now, evaluations>>
    /\ UNCHANGED <<formVars, probeVars, catalogVars, siteVars>>

\* fetchOperatingHours(): the backend answered with an hours object, one of
\* the given schedules.
FetchResolvedFrom(schedules) ==
    /\ pc = "fetching"
    /\ \E schedule \in schedules :
        /\ hoursData' = [kind |-> "object", entries |-> schedule]
        /\ cards' = RenderOperatingHours(schedule, currentStatus)
    /\ view' = "cards"
    /\ pc' = "fetched"
    /\ UNCHANGED <<currentStatus, now, evaluations>>
    /\ UNCHANGED <<formVars, probeVars, catalogVars, siteVars>>

FetchResolved == FetchResolvedFrom(Schedules)

\* fetchOperatingHours(): the backend answered with an hours value that is
\* truthy but no mapping (a number, true): it is stored, Object.entries of it
\* is empty, so no card is rendered.
FetchResolvedScalar ==
    /\ pc = "fetching"
    /\ hoursData' = [kind |-> "scalar", entries |-> <<>>]
    /\ cards' = RenderOperatingHours(<<>>, currentStatus)
    /\ view' = "cards"
    /\ pc' = "fetched"
    /\ UNCHANGED <<currentStatus, now, evaluations>>
    /\ UNCHANGED <<formVars, probeVars, catalogVars, siteVars>>

\* fetchOperatingHours(): the call failed or the answer has no hours.
FetchFailed ==
    /\ pc = "fetching"
    /\ view' = "empty"
    /\ cards' = <<>>
    /\ pc' = "fetched"
    /\ UNCHANGED <<hoursData, currentStatus, now, evaluations>>
    /\ UNCHANGED <<formVars, probeVars, catalogVars, siteVars>>

\* Variant: checkCurrentStatus() without its first line, the guard on hoursData.
CheckCurrentStatusUnguarded ==
    /\ currentStatus' = EvaluateEntries(hoursData.entries, currentStatus,
                                        CurrentTime(now), now.day)
    /\ cards' = UpdateStatusDisplay(cards, currentStatus')
    /\ evaluations' = IF evaluations = "none" THEN "once" ELSE "repeated"
\* checkCurrentStatus(): the state it leaves.  When the forEach throws,
\* updateStatusDisplay() is not reached.
CheckCurrentStatus ==
    IF hoursData.kind = "null"
    THEN UNCHANGED <<currentStatus, cards, evaluations>>
    ELSE /\ currentStatus' = EvaluateEntries(hoursData.entries, currentStatus,
                                             CurrentTime(now), now.day)
         /\ cards' = IF EvaluationThrows(hoursData.entries, CurrentTime(now), now.day)
                     THEN cards
                     ELSE UpdateStatusDisplay(cards, currentStatus')
         /\ evaluations' = IF evaluations = "none" THEN "once" ELSE "repeated"

\* init(): checkCurrentStatus() once fetchOperatingHours() has returned.
InitCheckStatus ==
    /\ pc = "fetched"
    /\ CheckCurrentStatus
    /\ pc' = "ready"
    /\ UNCHANGED <<hoursData, view, now>>
    /\ UNCHANGED <<formVars, probeVars, catalogVars, siteVars>>

\* Variant: the evaluation stores the default window it fell back to under
\* today's key of the unit, hours[dayOfWeek] = hours['default'].
CacheDefault(entries, dayOfWeek) ==
    [i \in 1..Len(entries) |->
        IF HasKey(entries[i].hours, "default") /\ ~HasKey(entries[i].hours, dayOfWeek)
        THEN [entries[i] EXCEPT !.hours =
                [k \in DOMAIN entries[i].hours \cup {dayOfWeek} |->
                    IF k = dayOfWeek THEN entries[i].hours["default"]
                    ELSE entries[i].hours[k]]]
        ELSE entries[i]]
TimerTickCachingDefault ==
    /\ pc \in {"fetching", "ready"}
    /\ CheckCurrentStatus
    /\ hoursData' = [hoursData EXCEPT !.entries = CacheDefault(hoursData.entries, now.day)]
    /\ UNCHANGED <<view, pc, now>>
    /\ UNCHANGED <<formVars, probeVars, catalogVars, siteVars>>
\* The setInterval callback: checkCurrentStatus() every minute.
TimerTick ==
    /\ pc \in {"fetching", "ready"}
    /\ CheckCurrentStatus
    /\ UNCHANGED <<hoursData, view, pc, now>>
    /\ UNCHANGED <<formVars, probeVars, catalogVars, siteVars>>

\* The wall clock moves on to the next instant.
ClockAdvance ==
    /\ now' = NextInstant(now)
    /\ evaluations' = "none"
    /\ UNCHANGED <<hoursData, currentStatus, cards, view, pc>>
    /\ UNCHANGED <<formVars, probeVars, catalogVars, siteVars>>

\* handleFormSubmit() with form data that validateInquiryForm() accepts: the
\* button is disabled and the inquiry is sent.  (With data it rejects the
\* handler returns after a toast, no state of the page changes.)
FormSubmit ==
    /\ form.button = "enabled"
    /\ form' = [form EXCEPT !.button = "disabled"]
    /\ UNCHANGED <<contactVars, probeVars, catalogVars, siteVars>>

\* handleFormSubmit(): the backend answered the inquiry, with success or not
\* (or the call failed); the button is enabled again.
FormAnswered ==
    /\ form.button = "disabled"
    /\ form' = [form EXCEPT !.button = "enabled"]
    /\ UNCHANGED <<contactVars, probeVars, catalogVars, siteVars>>

Next ==
    \/ InitStart
    \/ FetchResolved
    \/ FetchFailed
    \/ InitCheckStatus
    \/ TimerTick
    \/ ClockAdvance

Spec == Init /\ [][Next]_vars

\* The contact page with the schedules of the day lines.
FetchResolvedDescribe == FetchResolvedFrom(DescribeSchedules)
NextDescribe ==
    \/ InitStart
    \/ FetchResolvedDescribe
    \/ FetchFailed
    \/ InitCheckStatus
    \/ TimerTick
    \/ ClockAdvance

SpecDescribe == Init /\ [][NextDescribe]_vars

\* The contact page with any JSON answer and with the inquiry form.
FetchResolvedPage == FetchResolvedFrom(PageSchedules)
NextPage ==
    \/ InitStart
    \/ FetchResolvedPage
    \/ FetchResolvedScalar
    \/ FetchFailed
    \/ InitCheckStatus
    \/ TimerTick
    \/ ClockAdvance
    \/ FormSubmit
    \/ FormAnswered

SpecPage == Init /\ [][NextPage]_vars

----------------------------------------------------------------------------
(* Vocabulary of the properties *)

\* A well-formed time of the day: "HH:MM", hour 0..23, minute 0..59.
WellFormed(str) ==
    /\ Len(str) = 5
    /\ IsDigit(str[1]) /\ IsDigit(str[2]) /\ str[3] = ":" /\ IsDigit(str[4]) /\ IsDigit(str[5])
    /\ DigitVal(str[1]) * 10 + DigitVal(str[2]) <= 23
    /\ DigitVal(str[4]) * 10 + DigitVal(str[5]) <= 59

\* Minutes since midnight of a well-formed time.
MinuteOfDay(str) ==
    (DigitVal(str[1]) * 10 + DigitVal(str[2])) * 60 + DigitVal(str[4]) * 10 + DigitVal(str[5])

WellFormedWindow(w) == WellFormed(w.open) /\ WellFormed(w.close)

\* Open iff open <= now < close, in minutes since midnight.
HalfOpenStatus(w, minutes) ==
    IF MinuteOfDay(w.open) <= minutes /\ minutes < MinuteOfDay(w.close)
    THEN "open" ELSE "closed"

\* The day windows of a unit that apply on a weekday: the named one, or the
\* default one when the weekday has no named entry.
WindowsOn(hours, day) ==
    IF day \in DOMAIN hours THEN {hours[day]}
    ELSE IF "default" \in DOMAIN hours THEN {hours["default"]}
    ELSE {}

NamedDays(hours) == DOMAIN hours \cap DaySet

\* The status held for a unit, "none" when currentStatus has no entry for it.
StatusOf(unit) == IF unit \in DOMAIN currentStatus THEN currentStatus[unit] ELSE "none"

\* The schedule has just been evaluated at the instant `now`.
Evaluated == hoursData.kind = "object" /\ evaluations # "none"

Entries == {hoursData.entries[i] : i \in 1..Len(hoursData.entries)}

\* A unit schedule without its emergency text.
WithoutEmergency(hours) == [k \in DOMAIN hours \ {"emergency"} |-> hours[k]]

----------------------------------------------------------------------------
(* Properties *)

\* C1: for a well-formed day window with open < close that applies today, the
\* evaluation marks the unit open exactly when open <= now < close.
C1_HalfOpenInterval ==
    Evaluated =>
        \A e \in Entries : \A w \in WindowsOn(e.hours, now.day) :
            (WellFormedWindow(w) /\ MinuteOfDay(w.open) < MinuteOfDay(w.close)) =>
                StatusOf(e.unit) = HalfOpenStatus(w, now.minutes)

\* C1 witness: evaluated one minute before the close of such a window, open.
C1_Witness ==
    /\ Evaluated
    /\ \E e \in Entries : \E w \in WindowsOn(e.hours, now.day) :
        /\ WellFormedWindow(w)
        /\ MinuteOfDay(w.open) < MinuteOfDay(w.close)
        /\ now.minutes = MinuteOfDay(w.close) - 1
        /\ StatusOf(e.unit) = "open"

\* C2: for a well-formed day window with open >= close that applies today, the
\* evaluation marks the unit closed whatever the time.
C2_NoWrapAround ==
    Evaluated =>
        \A e \in Entries : \A w \in WindowsOn(e.hours, now.day) :
            (WellFormedWindow(w) /\ MinuteOfDay(w.open) >= MinuteOfDay(w.close)) =>
                StatusOf(e.unit) = "closed"

\* C2 witness: an overnight window evaluated at its opening minute, closed.
C2_Witness ==
    /\ Evaluated
    /\ \E e \in Entries : \E w \in WindowsOn(e.hours, now.day) :
        /\ WellFormedWindow(w)
        /\ MinuteOfDay(w.open) > MinuteOfDay(w.close)
        /\ now.minutes = MinuteOfDay(w.open)
        /\ StatusOf(e.unit) = "closed"

\* C3: a unit with a default window and no named weekday gets the default
\* window's status on every weekday.
C3_DefaultEveryDay ==
    Evaluated =>
        \A e \in Entries :
            (/\ NamedDays(e.hours) = {}
             /\ "default" \in DOMAIN e.hours
             /\ WellFormedWindow(e.hours["default"])) =>
                StatusOf(e.unit) = HalfOpenStatus(e.hours["default"], now.minutes)

\* C3 witness: such a unit evaluated on a Sunday inside its default window.
C3_Witness ==
    /\ Evaluated
    /\ now.day = "Sunday"
    /\ \E e \in Entries :
        /\ NamedDays(e.hours) = {}
        /\ "default" \in DOMAIN e.hours
        /\ WellFormedWindow(e.hours["default"])
        /\ StatusOf(e.unit) = "open"

\* C4: with a named window for today and a default window, the named window
\* decides; the default window decides on the weekdays without a named entry.
C4_NamedBeforeDefault ==
    Evaluated =>
        \A e \in Entries :
            ("default" \in DOMAIN e.hours /\ NamedDays(e.hours) # {}) =>
                /\ (now.day \in DOMAIN e.hours /\ WellFormedWindow(e.hours[now.day])) =>
                        StatusOf(e.unit) = HalfOpenStatus(e.hours[now.day], now.minutes)
                /\ (now.day \notin DOMAIN e.hours /\ WellFormedWindow(e.hours["default"])) =>
                        StatusOf(e.unit) = HalfOpenStatus(e.hours["default"], now.minutes)

\* C4 witness: Monday 07:00-20:00 with default 08:00-20:00, evaluated on
\* Monday at 07:00: open by the named window, closed by the default one.
C4_Witness ==
    /\ Evaluated
    /\ now.day = "Monday"
    /\ \E e \in Entries :
        /\ "default" \in DOMAIN e.hours
        /\ now.day \in DOMAIN e.hours
        /\ WellFormedWindow(e.hours[now.day])
        /\ WellFormedWindow(e.hours["default"])
        /\ HalfOpenStatus(e.hours[now.day], now.minutes) = "open"
        /\ HalfOpenStatus(e.hours["default"], now.minutes) = "closed"
        /\ StatusOf(e.unit) = "open"

\* C5 (as claimed): a unit with neither a window for today nor a default one is
\* closed after the evaluation, and so is the badge of its card.
C5_NoWindowIsClosed ==
    Evaluated =>
        \A e \in Entries :
            WindowsOn(e.hours, now.day) = {} =>
                /\ StatusOf(e.unit) = "closed"
                /\ \A i \in 1..Len(cards) :
                        cards[i].unit = e.unit => cards[i].badge = "closed"

\* C6 (as claimed): a day window with a malformed open or close string is
\* treated as absent, the unit is closed at every time of that day.
C6_MalformedIsClosed ==
    Evaluated =>
        \A e \in Entries : \A w \in WindowsOn(e.hours, now.day) :
            (Truthy(w.open) /\ Truthy(w.close) /\ ~WellFormedWindow(w)) =>
                StatusOf(e.unit) = "closed"

\* C7 (as claimed): after an evaluation the status mapping has an entry for
\* exactly the units of the schedule.
C7_EntryPerUnit ==
    Evaluated => DOMAIN currentStatus = {e.unit : e \in Entries}

\* C8: the status an evaluation assigns to a unit is the one it assigns to the
\* same unit without its emergency text.
C8_EmergencyIgnored ==
    Evaluated =>
        \A e \in Entries :
            LET plain == UnitStatus(WithoutEmergency(e.hours), CurrentTime(now), now.day)
            IN  /\ UnitStatus(e.hours, CurrentTime(now), now.day) = plain
                /\ plain # "none" => StatusOf(e.unit) = plain

\* C8 witness: a unit with an emergency text evaluated closed.
C8_Witness ==
    /\ Evaluated
    /\ \E e \in Entries :
        /\ "emergency" \in DOMAIN e.hours
        /\ StatusOf(e.unit) = "closed"

\* C9 (as claimed): after an evaluation the status mapping is the one derived
\* from the schedule and the instant alone, nothing of an earlier evaluation
\* is left in it.
C9_FreshlyDerived ==
    Evaluated =>
        currentStatus = EvaluateEntries(hoursData.entries, EmptyStatus,
                                        CurrentTime(now), now.day)

\* C10: an evaluation that follows another one at the same instant changes
\* neither the status mapping nor the badges.
C10_Idempotent ==
    [][((InitCheckStatus \/ TimerTick) /\ Evaluated)
            => (currentStatus' = currentStatus /\ cards' = cards)]_vars

\* C10 witness: the schedule evaluated twice at one instant, with statuses and
\* badges in place.
C10_Witness ==
    /\ evaluations = "repeated"
    /\ DOMAIN currentStatus # {}
    /\ cards # <<>>

----------------------------------------------------------------------------
(* The comparison of checkCurrentStatus on its own: one window, one instant *)

\* Times of the day around the changes of hour and of the number of digits.
CompareHours == {0, 9, 10, 23}
CompareMinutesOfHour == {0, 1, 59}
CompareMinutes == {h * 60 + m : h \in CompareHours, m \in CompareMinutesOfHour}

InitCompare ==
    /\ hoursData = NullHours
    /\ currentStatus = EmptyStatus
    /\ cards = <<>>
    /\ view = "blank"
    /\ pc = "constructed"
    /\ evaluations = "none"
    /\ form = IdleForm
    /\ now \in [day : {"Monday"}, minutes : CompareMinutes]
    /\ probe \in [open : {TimeString(m) : m \in CompareMinutes},
                  close : {TimeString(m) : m \in CompareMinutes},
                  result : {"none"}]
    /\ InitCatalog
    /\ InitSite

\* Lines 80-81 and 88-92 of checkCurrentStatus for the window of the probe.
Compare ==
    /\ probe.result = "none"
    /\ probe' = [probe EXCEPT !.result =
            IF IsOpen(CurrentTime(now),
                      TimeStringToNumber(probe.open),
                      TimeStringToNumber(probe.close))
            THEN "open" ELSE "closed"]
    /\ UNCHANGED <<contactVars, formVars, catalogVars, siteVars>>

NextCompare == Compare

SpecCompare == InitCompare /\ [][NextCompare]_vars

\* C18: for well-formed open, close and now the result of comparing the HHMM
\* integers is the result of comparing the minutes since midnight.
C18_SameAsMinutes ==
    probe.result # "none" =>
        (probe.result = "open" <=>
            (MinuteOfDay(probe.open) <= now.minutes /\ now.minutes < MinuteOfDay(probe.close)))

\* C18 witness: at 09:59 a window from 00:01 to 10:00 is found open.
C18_Witness ==
    /\ probe.result = "open"
    /\ now.minutes = 9 * 60 + 59
    /\ probe.open = TimeString(1)
    /\ probe.close = TimeString(10 * 60)

----------------------------------------------------------------------------
(* Properties of the cards *)

\* The schedule of the unit of a card.
HoursOf(unit) == (CHOOSE e \in Entries : e.unit = unit).hours

\* Position of a weekday in the calendar week, Monday first.
DayIndex(day) == CHOOSE i \in 1..Len(Days) : Days[i] = day

\* The day lines of a card, in the order of the card.
DayLinesOf(card) == SelectSeq(card.lines, LAMBDA l : l.kind = "day")

\* The weekdays for which a unit has a named window with open and close.
DaysWithWindow(hours) ==
    {d \in DaySet : d \in DOMAIN hours /\ Truthy(hours[d].open) /\ Truthy(hours[d].close)}

\* C11: on every card the day lines come in the order Monday..Sunday, and the
\* emergency line, present iff the unit has an emergency text, is the last line.
C11_CalendarOrder ==
    view = "cards" =>
        \A i \in 1..Len(cards) :
            LET lines == cards[i].lines
                hours == HoursOf(cards[i].unit)
            IN  /\ \A j, k \in 1..Len(lines) :
                        (j < k /\ lines[j].kind = "day" /\ lines[k].kind = "day") =>
                            DayIndex(lines[j].day) < DayIndex(lines[k].day)
                /\ \A j \in 1..Len(lines) : lines[j].kind = "emergency" => j = Len(lines)
                /\ "emergency" \in DOMAIN hours =>
                        /\ Len(lines) > 0
                        /\ lines[Len(lines)].kind = "emergency"
                        /\ lines[Len(lines)].text = hours["emergency"]

\* C11 witness: a card with the lines of Monday, Wednesday and Sunday and, last,
\* the emergency line.
C11_Witness ==
    /\ view = "cards"
    /\ \E i \in 1..Len(cards) :
        /\ Len(cards[i].lines) = 4
        /\ cards[i].lines[1].day = "Monday"
        /\ cards[i].lines[3].day = "Sunday"
        /\ cards[i].lines[4].kind = "emergency"

C13_BadgeOfSameUnit ==
    Evaluated =>
        \A i \in 1..Len(cards) :
            StatusOf(cards[i].unit) # "none" => cards[i].badge = StatusOf(cards[i].unit)

----------------------------------------------------------------------------
(* Properties of the page *)

\* C14: hoursData changes only when a fetch stores the answer, and then it was
\* null before; no evaluation, timer tick, rendering or form submission
\* changes a schedule that is held.
C14_ScheduleImmutable ==
    [][hoursData' # hoursData =>
            (hoursData.kind = "null" /\ (FetchResolvedPage \/ FetchResolvedScalar))]_vars

\* C14 witness: a schedule held, evaluated repeatedly, with an inquiry being sent.
C14_Witness ==
    /\ hoursData.kind = "object"
    /\ hoursData.entries # <<>>
    /\ evaluations = "repeated"
    /\ form.button = "disabled"

\* A unit whose data for today is missing or malformed.
MalformedToday(hours, day) ==
    \/ WindowsOn(hours, day) = {}
    \/ \E w \in WindowsOn(hours, day) : ~WellFormedWindow(w)

\* C15 (as claimed): whatever is malformed or missing for one unit, every other
\* unit with a well-formed window for today gets the status of that window.
C15_OtherUnitsUnaffected ==
    Evaluated =>
        \A bad, e \in Entries :
            (bad.unit # e.unit /\ MalformedToday(bad.hours, now.day)) =>
                \A w \in WindowsOn(e.hours, now.day) :
                    WellFormedWindow(w) => StatusOf(e.unit) = HalfOpenStatus(w, now.minutes)

\* C16 (as claimed): an hours value that is not a mapping is never stored.
C16_InvalidNeverStored == hoursData.kind \in {"null", "object"}

\* C17: while no schedule is held no status is computed, no card and no badge
\* is shown, and once the fetch has failed the page shows the fallback message.
C17_NoScheduleNoStatus ==
    hoursData.kind = "null" =>
        /\ currentStatus = EmptyStatus
        /\ cards = <<>>
        /\ evaluations = "none"
        /\ pc \in {"fetched", "ready"} => view = "empty"

\* C17 witness: the fetch has failed, init() has called checkCurrentStatus and
\* the clock has moved on.
C17_Witness ==
    /\ hoursData.kind = "null"
    /\ pc = "ready"
    /\ view = "empty"
    /\ now.day = "Sunday"

----------------------------------------------------------------------------
(* RetailManager and ServicesManager: the catalog lists of APP_STATE *)

\* String.prototype.toLowerCase on the letters A..Z.
UpperCase == <<"A", "B", "C", "D", "E", "F", "G", "H", "I", "J", "K", "L", "M",
               "N", "O", "P", "Q", "R", "S", "T", "U", "V", "W", "X", "Y", "Z">>
LowerCase == <<"a", "b", "c", "d", "e", "f", "g", "h", "i", "j", "k", "l", "m",
               "n", "o", "p", "q", "r", "s", "t", "u", "v", "w", "x", "y", "z">>
ToLowerChar(c) ==
    IF \E i \in 1..Len(UpperCase) : UpperCase[i] = c
    THEN LowerCase[CHOOSE i \in 1..Len(UpperCase) : UpperCase[i] = c]
    ELSE c
ToLowerCase(str) == [i \in 1..Len(str) |-> ToLowerChar(str[i])]

\* The predicate of the four filters:
\* category === 'all' || (item.category && item.category.toLowerCase() === category.toLowerCase())
CategoryMatches(item, category) ==
    category = All \/
        (Truthy(item.category) /\ ToLowerCase(item.category) = ToLowerCase(category))

\* list.filter(item => ...) for a category.
FilterByCategory(list, category) ==
    SelectSeq(list, LAMBDA item : CategoryMatches(item, category))

\* e.target.dataset.category || 'all'
CategoryOf(button) == IF Truthy(button) THEN button ELSE All

\* What a grid shows after a render: the cards of the filtered list, or the
\* "no items in this category" message.
Rendered(filtered) == IF Len(filtered) = 0 THEN "none" ELSE "items"

\* The check of the answer: the call failed, or one of the two lists is missing.
RetailFetchThrows(response) ==
    ~response.arrived \/ ~response.menu.present \/ ~response.products.present
ServicesFetchThrows(response) ==
    ~response.arrived \/ ~response.services.present \/ ~response.wash_packages.present

\* Variant: each list is stored as soon as it is found in the answer.
FetchRetailDataListByList(app, response) ==
    IF ~response.arrived THEN app
    ELSE LET withMenu ==
                IF response.menu.present
                THEN [app EXCEPT !.menu = response.menu.items,
                                 !.filteredMenu = response.menu.items]
                ELSE app
         IN  IF response.menu.present /\ response.products.present
             THEN [withMenu EXCEPT !.products = response.products.items,
                                   !.filteredProducts = response.products.items]
             ELSE withMenu
\* APP_STATE after fetchRetailData() received the answer.
FetchRetailData(app, response) ==
    IF RetailFetchThrows(response) THEN app
    ELSE [app EXCEPT !.menu = response.menu.items,
                     !.filteredMenu = response.menu.items,
                     !.products = response.products.items,
                     !.filteredProducts = response.products.items]

\* APP_STATE after fetchServicesData() received the answer.
FetchServicesData(app, response) ==
    IF ServicesFetchThrows(response) THEN app
    ELSE [app EXCEPT !.services = response.services.items,
                     !.filteredServices = response.services.items,
                     !.washPackages = response.wash_packages.items,
                     !.filteredWashPackages = response.wash_packages.items]

(* Answers of the backend *)

Item(name, category) == [name |-> name, category |-> category]

Food == <<"F", "o", "o", "d">>
FoodUpper == <<"F", "O", "O", "D">>
Tea == <<"t", "e", "a">>
Tyres == <<"T", "y", "r", "e", "s">>
TyresLower == <<"t", "y", "r", "e", "s">>
Wax == <<"w", "a", "x">>

\* Lists of the answers: missing, empty, or items with categories written in
\* another case than the buttons', and an item without a category.
MenuLists ==
    {Missing, Present(<<>>),
     Present(<<Item("ugali", FoodUpper), Item("chai", Tea), Item("water", <<>>)>>)}
ProductLists == {Missing, Present(<<Item("bread", Food), Item("soap", <<>>)>>)}
ServiceLists ==
    {Missing, Present(<<>>),
     Present(<<Item("alignment", TyresLower), Item("polish", Wax), Item("check", <<>>)>>)}
WashLists == {Missing, Present(<<Item("basic", Wax), Item("full", <<>>)>>)}

RetailResponses ==
    {NoRetailResponse} \cup [arrived : {TRUE}, menu : MenuLists, products : ProductLists]
ServicesResponses ==
    {NoServicesResponse} \cup
        [arrived : {TRUE}, services : ServiceLists, wash_packages : WashLists]

\* data-category of the filter buttons; <<>> is a button without the attribute.
MenuButtons == {<<>>, Food, Tea}
RetailButtons == {All, Food}
ServiceButtons == {<<>>, Tyres, Wax}
WashButtons == {All, Wax}

(* Operations *)

\* RetailManager.init(): the listeners are set, fetchRetailData() shows the
\* loading states and awaits the backend.
RetailInit ==
    /\ retail.pc = "constructed"
    /\ retail' = [retail EXCEPT !.pc = "fetching",
                                !.menuView = "loading", !.retailView = "loading"]
    /\ UNCHANGED <<appState, services>>
    /\ UNCHANGED <<contactVars, formVars, probeVars, siteVars>>

\* fetchRetailData() after the await: the lists are stored and rendered, or
\* the catch shows the error messages.
RetailFetchSettled ==
    /\ retail.pc = "fetching"
    /\ \E response \in RetailResponses :
        /\ appState' = FetchRetailData(appState, response)
        /\ retail' = [retail EXCEPT
                !.pc = IF RetailFetchThrows(response) THEN "failed" ELSE "loaded",
                !.response = response,
                !.menuView = IF RetailFetchThrows(response) THEN "error"
                             ELSE Rendered(appState'.filteredMenu),
                !.retailView = IF RetailFetchThrows(response) THEN "error"
                               ELSE Rendered(appState'.filteredProducts)]
    /\ UNCHANGED services
    /\ UNCHANGED <<contactVars, formVars, probeVars, siteVars>>

\* handleMenuCategoryFilter(e) and applyMenuFilters().
HandleMenuCategoryFilter ==
    /\ retail.pc # "constructed"
    /\ \E button \in MenuButtons :
        /\ appState' = [appState EXCEPT
                !.filteredMenu = FilterByCategory(appState.menu, CategoryOf(button))]
        /\ retail' = [retail EXCEPT !.activeMenuCategory = CategoryOf(button),
                                    !.menuView = Rendered(appState'.filteredMenu)]
    /\ UNCHANGED services
    /\ UNCHANGED <<contactVars, formVars, probeVars, siteVars>>

\* handleRetailCategoryFilter(e) and applyRetailFilters().
HandleRetailCategoryFilter ==
    /\ retail.pc # "constructed"
    /\ \E button \in RetailButtons :
        /\ appState' = [appState EXCEPT
                !.filteredProducts = FilterByCategory(appState.products, CategoryOf(button))]
        /\ retail' = [retail EXCEPT !.activeRetailCategory = CategoryOf(button),
                                    !.retailView = Rendered(appState'.filteredProducts)]
    /\ UNCHANGED services
    /\ UNCHANGED <<contactVars, formVars, probeVars, siteVars>>

\* ServicesManager.init(): the listeners are set, fetchServicesData() shows the
\* loading states and awaits the backend.
ServicesInit ==
    /\ services.pc = "constructed"
    /\ services' = [services EXCEPT !.pc = "fetching",
                                    !.servicesView = "loading", !.washView = "loading"]
    /\ UNCHANGED <<appState, retail>>
    /\ UNCHANGED <<contactVars, formVars, probeVars, siteVars>>

\* fetchServicesData() after the await.
ServicesFetchSettled ==
    /\ services.pc = "fetching"
    /\ \E response \in ServicesResponses :
        /\ appState' = FetchServicesData(appState, response)
        /\ services' = [services EXCEPT
                !.pc = IF ServicesFetchThrows(response) THEN "failed" ELSE "loaded",
                !.response = response,
                !.servicesView = IF ServicesFetchThrows(response) THEN "error"
                                 ELSE Rendered(appState'.filteredServices),
                !.washView = IF ServicesFetchThrows(response) THEN "error"
                             ELSE Rendered(appState'.filteredWashPackages)]
    /\ UNCHANGED retail
    /\ UNCHANGED <<contactVars, formVars, probeVars, siteVars>>

\* handleServiceCategoryFilter(e) and applyServiceFilters().
HandleServiceCategoryFilter ==
    /\ services.pc # "constructed"
    /\ \E button \in ServiceButtons :
        /\ appState' = [appState EXCEPT
                !.filteredServices = FilterByCategory(appState.services, CategoryOf(button))]
        /\ services' = [services EXCEPT !.activeServiceCategory = CategoryOf(button),
                                        !.servicesView = Rendered(appState'.filteredServices)]
    /\ UNCHANGED retail
    /\ UNCHANGED <<contactVars, formVars, probeVars, siteVars>>

\* handleWashCategoryFilter(e) and applyWashFilters().
HandleWashCategoryFilter ==
    /\ services.pc # "constructed"
    /\ \E button \in WashButtons :
        /\ appState' = [appState EXCEPT
                !.filteredWashPackages =
                    FilterByCategory(appState.washPackages, CategoryOf(button))]
        /\ services' = [services EXCEPT !.activeWashCategory = CategoryOf(button),
                                        !.washView = Rendered(appState'.filteredWashPackages)]
    /\ UNCHANGED retail
    /\ UNCHANGED <<contactVars, formVars, probeVars, siteVars>>

\* The catalog pages on their own: the contact page stays as constructed.
InitCatalogPage ==
    /\ hoursData = NullHours
    /\ currentStatus = EmptyStatus
    /\ cards = <<>>
    /\ view = "blank"
    /\ pc = "constructed"
    /\ now = [day |-> "Monday", minutes |-> Earliest(NowMinutes)]
    /\ evaluations = "none"
    /\ form = IdleForm
    /\ probe = NoProbe
    /\ InitCatalog
    /\ InitSite

NextCatalog ==
    \/ RetailInit
    \/ RetailFetchSettled
    \/ HandleMenuCategoryFilter
    \/ HandleRetailCategoryFilter
    \/ ServicesInit
    \/ ServicesFetchSettled
    \/ HandleServiceCategoryFilter
    \/ HandleWashCategoryFilter

SpecCatalog == InitCatalogPage /\ [][NextCatalog]_vars

----------------------------------------------------------------------------
(* Properties of the catalog lists *)

\* Two strings that differ at most in the case of their letters.
SameIgnoringCase(a, b) ==
    /\ Len(a) = Len(b)
    /\ \A i \in 1..Len(a) :
        \/ a[i] = b[i]
        \/ \E k \in 1..Len(UpperCase) :
                {a[i], b[i]} = {UpperCase[k], LowerCase[k]}

\* The items of a list in a category, or the whole list for 'all'.
ItemsIn(list, category) ==
    SelectSeq(list, LAMBDA item :
        category = All \/ (item.category # <<>> /\ SameIgnoringCase(item.category, category)))

\* C19 (as claimed): at every moment each filtered list holds the items of its
\* full list that are in the active category.
C19_FilteredFollowsCategory ==
    /\ appState.filteredMenu = ItemsIn(appState.menu, retail.activeMenuCategory)
    /\ appState.filteredProducts = ItemsIn(appState.products, retail.activeRetailCategory)
    /\ appState.filteredServices = ItemsIn(appState.services, services.activeServiceCategory)
    /\ appState.filteredWashPackages =
            ItemsIn(appState.washPackages, services.activeWashCategory)

\* C20: the step in which a fetch ends after the call failed or the answer
\* lacked one of its two lists leaves APP_STATE as it was and shows the error
\* message in both grids of that manager.
C20_FailedFetchKeepsLists ==
    [][/\ (retail.pc = "fetching" /\ retail'.pc # "fetching"
            /\ (~retail'.response.arrived \/ ~retail'.response.menu.present
                    \/ ~retail'.response.products.present)) =>
                (/\ appState' = appState
                 /\ retail'.menuView = "error"
                 /\ retail'.retailView = "error")
       /\ (services.pc = "fetching" /\ services'.pc # "fetching"
            /\ (~services'.response.arrived \/ ~services'.response.services.present
                    \/ ~services'.response.wash_packages.present)) =>
                (/\ appState' = appState
                 /\ services'.servicesView = "error"
                 /\ services'.washView = "error")]_vars

\* C20 witness: the retail answer came with a menu of three items and without
\* products after the services were loaded; the menu is not stored.
C20_Witness ==
    /\ retail.pc = "failed"
    /\ retail.response.arrived
    /\ retail.response.menu.present /\ Len(retail.response.menu.items) = 3
    /\ ~retail.response.products.present
    /\ appState.menu = <<>>
    /\ retail.menuView = "error" /\ retail.retailView = "error"
    /\ Len(appState.services) = 3

----------------------------------------------------------------------------
(* AdminManager: login, token verification, tracked changes and save *)

\* Variant: the token of the answer is not looked at.
LoginRejectedUnlessSuccess(answer) == ~answer.arrived \/ ~answer.success
\* if (!response.success || !response.token) throw; a rejected apiCall throws too.
LoginRejected(answer) ==
    ~answer.arrived \/ ~answer.success \/ answer.token = NoToken

\* verifyToken(): anything but an answer with success logs out.
VerifyRejected(answer) == ~answer.arrived \/ ~answer.success

\* if (!response.success) throw; a rejected apiCall throws too.
SaveRejected(answer) == ~answer.arrived \/ ~answer.success

\* Keys of changedItems: `${type}-${itemId}`, 'settings-phone', `hours-${day}`.
Key(prefix, rest) == [prefix |-> prefix, rest |-> rest]

\* Map.prototype.has
MapHas(map, key) == \E i \in 1..Len(map) : map[i].key = key

\* Map.prototype.set: a new key is appended, a known key keeps its place.
MapSet(map, key, value) ==
    IF MapHas(map, key)
    THEN [i \in 1..Len(map) |->
            IF map[i].key = key THEN [key |-> key, value |-> value] ELSE map[i]]
    ELSE Append(map, [key |-> key, value |-> value])

\* parseInt(text) || 0
ParseIntOrZero(text) ==
    LET n == ParseInt(text) IN IF n.nan \/ n.val = 0 THEN 0 ELSE n.val

\* The record trackChange stores for an item row.
ItemChange(itemId, type, price, stock, outOfStock) ==
    [id |-> itemId, type |-> type, price |-> ParseIntOrZero(price),
     stock |-> ParseIntOrZero(stock), outOfStock |-> outOfStock]

\* key.startsWith('hours-')
IsHoursKey(key) == key.prefix = "hours"

\* items: Array.from(this.changedItems.values())
PayloadItems(map) == [i \in 1..Len(map) |-> map[i].value]

\* payload.settings: {} unless the phone or the email changed, then the
\* values the two inputs hold.
PayloadSettings(map, phoneVal, emailVal) ==
    IF MapHas(map, Key("settings", "phone")) \/ MapHas(map, Key("settings", "email"))
    THEN <<[key |-> "phone", value |-> phoneVal], [key |-> "email", value |-> emailVal]>>
    ELSE <<>>

\* payload.hours: the changes whose key starts with 'hours-', by day.
PayloadHours(map) ==
    LET changed == SelectSeq(map, LAMBDA e : IsHoursKey(e.key))
    IN  [i \in 1..Len(changed) |-> [key |-> changed[i].key.rest, value |-> changed[i].value]]

\* The payload of saveAllChanges.
Payload(map, phoneVal, emailVal) ==
    [items |-> PayloadItems(map),
     settings |-> PayloadSettings(map, phoneVal, emailVal),
     hours |-> PayloadHours(map)]

\* Variant: the tracked changes are cleared whatever the answer.
ChangesAfterSaveCleared(map, answer) == <<>>
\* changedItems after the answer to the save: cleared on success only.
ChangesAfterSave(map, answer) == IF SaveRejected(answer) THEN map ELSE <<>>

(* Inputs *)

Tokens == {NoToken, "token-1"}
\* Answers to a login: none (the call failed), or success and token as the backend says.
LoginAnswers == {NoAnswer} \cup [arrived : {TRUE}, success : BOOLEAN, token : Tokens]
\* Answers to a verification or a save: none, or success as the backend says.
Answers == {NoAnswer} \cup [arrived : {TRUE}, success : BOOLEAN, token : {NoToken}]

\* The page after the browser left it.
LeftPage == [NewAdminManager(NoToken) EXCEPT !.pc = "left"]

\* What the manager types into the row of item 1 of the restaurant: a price
\* and the out-of-stock switch; the stock input holds "3".
RowInputs ==
    {[price |-> <<"2", "5", "0">>, outOfStock |-> FALSE], [price |-> <<>>, outOfStock |-> TRUE]}
StockInput == <<"3">>
PhoneInputs == {Text("0711")}
EmailInputs == {Text("info@penuel")}
HoursInputs == {[open |-> "06:00", close |-> "22:00"]}
EditedDays == {"Monday"}

(* Operations *)

\* init(): verify a stored token, or wait for a login.
AdminInit ==
    /\ admin.pc = "constructed"
    /\ admin' = [admin EXCEPT
            !.pc = IF admin.adminToken # NoToken THEN "verifying" ELSE "login"]
    /\ UNCHANGED <<contactVars, formVars, probeVars, catalogVars, chatVars, widgetVars>>

\* handleLogin(e) without a username or a password.
HandleLoginEmpty ==
    /\ admin.pc = "login"
    /\ admin.loginBtn = "enabled"
    /\ admin.authError = "hidden"
    /\ admin' = [admin EXCEPT !.authError = "shown"]
    /\ UNCHANGED <<contactVars, formVars, probeVars, catalogVars, chatVars, widgetVars>>

\* The timer of showAuthError hides the message.
AuthErrorTimeout ==
    /\ admin.authError = "shown"
    /\ admin' = [admin EXCEPT !.authError = "hidden"]
    /\ UNCHANGED <<contactVars, formVars, probeVars, catalogVars, chatVars, widgetVars>>

\* handleLogin(e) up to the await.
HandleLogin ==
    /\ admin.pc = "login"
    /\ admin.loginBtn = "enabled"
    /\ admin' = [admin EXCEPT !.pc = "loggingIn", !.loginBtn = "disabled"]
    /\ UNCHANGED <<contactVars, formVars, probeVars, catalogVars, chatVars, widgetVars>>

\* handleLogin(e) after the await: token stored and dashboard shown, or the
\* catch shows the error and enables the button.
LoginAnswered ==
    /\ admin.pc = "loggingIn"
    /\ \E answer \in LoginAnswers :
        admin' =
            IF LoginRejected(answer)
            THEN [admin EXCEPT !.pc = "login", !.answer = answer,
                               !.authError = "shown", !.loginBtn = "enabled"]
            ELSE [admin EXCEPT !.pc = "dashboard", !.answer = answer,
                               !.storedToken = answer.token, !.adminToken = answer.token,
                               !.dashboard = "visible"]
    /\ UNCHANGED <<contactVars, formVars, probeVars, catalogVars, chatVars, widgetVars>>

\* verifyToken() after the await: dashboard shown, or logout().
VerifyAnswered ==
    /\ admin.pc = "verifying"
    /\ \E answer \in Answers :
        admin' =
            IF VerifyRejected(answer)
            THEN [LeftPage EXCEPT !.answer = answer]
            ELSE [admin EXCEPT !.pc = "dashboard", !.answer = answer,
                               !.dashboard = "visible"]
    /\ UNCHANGED <<contactVars, formVars, probeVars, catalogVars, chatVars, widgetVars>>

\* loadAllData() after the await: the rows and the settings are rendered with
\* their listeners, or the answer did not arrive and nothing is rendered.
DataLoaded ==
    /\ admin.pc = "dashboard"
    /\ ~admin.loaded
    /\ admin.toast = "none"
    /\ \E arrived \in BOOLEAN :
        admin' = IF arrived THEN [admin EXCEPT !.loaded = TRUE]
                 ELSE [admin EXCEPT !.toast = "error"]
    /\ UNCHANGED <<contactVars, formVars, probeVars, catalogVars, chatVars, widgetVars>>

\* The change listener of an item row: trackChange(itemId, type, row).
TrackChange ==
    /\ admin.pc = "dashboard" /\ admin.loaded
    /\ \E input \in RowInputs :
        admin' = [admin EXCEPT !.changedItems =
            MapSet(admin.changedItems, Key("restaurant", "1"),
                   ItemChange(1, "restaurant", input.price, StockInput, input.outOfStock))]
    /\ UNCHANGED <<contactVars, formVars, probeVars, catalogVars, chatVars, widgetVars>>

\* The change listener of #setting-phone.
ChangePhone ==
    /\ admin.pc = "dashboard" /\ admin.loaded
    /\ \E value \in PhoneInputs :
        admin' = [admin EXCEPT !.phoneInput = value,
            !.changedItems = MapSet(admin.changedItems, Key("settings", "phone"), value)]
    /\ UNCHANGED <<contactVars, formVars, probeVars, catalogVars, chatVars, widgetVars>>

\* The change listener of #setting-email.
ChangeEmail ==
    /\ admin.pc = "dashboard" /\ admin.loaded
    /\ \E value \in EmailInputs :
        admin' = [admin EXCEPT !.emailInput = value,
            !.changedItems = MapSet(admin.changedItems, Key("settings", "email"), value)]
    /\ UNCHANGED <<contactVars, formVars, probeVars, catalogVars, chatVars, widgetVars>>

\* The change listener of a row of the hours editor.
ChangeHours ==
    /\ admin.pc = "dashboard" /\ admin.loaded
    /\ \E day \in EditedDays, value \in HoursInputs :
        admin' = [admin EXCEPT !.changedItems =
            MapSet(admin.changedItems, Key("hours", day), value)]
    /\ UNCHANGED <<contactVars, formVars, probeVars, catalogVars, chatVars, widgetVars>>

\* saveAllChanges() up to the await: nothing to save, or the button is
\* disabled and the payload sent.
SaveAllChanges ==
    /\ admin.pc = "dashboard"
    /\ admin.saveBtn = "enabled"
    /\ admin' =
        IF Len(admin.changedItems) = 0
        THEN [admin EXCEPT !.toast = "info"]
        ELSE [admin EXCEPT !.saveBtn = "disabled", !.saving = TRUE,
                !.payload = Payload(admin.changedItems, admin.phoneInput, admin.emailInput)]
    /\ admin' # admin
    /\ UNCHANGED <<contactVars, formVars, probeVars, catalogVars, chatVars, widgetVars>>

\* saveAllChanges() after the await: success clears the changes, the catch
\* keeps them; both enable the button.
SaveAnswered ==
    /\ admin.pc = "dashboard"
    /\ admin.saving
    /\ \E answer \in Answers :
        admin' = [admin EXCEPT
            !.answer = answer,
            !.saving = FALSE,
            !.saveBtn = "enabled",
            !.payload = NoPayload,
            !.toast = IF SaveRejected(answer) THEN "error" ELSE "success",
            !.changedItems = ChangesAfterSave(admin.changedItems, answer)]
    /\ UNCHANGED <<contactVars, formVars, probeVars, catalogVars, chatVars, widgetVars>>

\* discardChanges(): nothing to discard, or, once confirmed, the changes are
\* cleared and the page reloaded.
DiscardChanges ==
    /\ admin.pc = "dashboard"
    /\ \E confirmed \in BOOLEAN :
        admin' =
            IF Len(admin.changedItems) = 0 THEN [admin EXCEPT !.toast = "info"]
            ELSE IF confirmed THEN NewAdminManager(admin.storedToken)
            ELSE admin
    /\ admin' # admin
    /\ UNCHANGED <<contactVars, formVars, probeVars, catalogVars, chatVars, widgetVars>>

\* logout(): the token is removed and the browser leaves for index.html.
Logout ==
    /\ admin.pc = "dashboard"
    /\ admin' = LeftPage
    /\ UNCHANGED <<contactVars, formVars, probeVars, catalogVars, chatVars, widgetVars>>

\* The admin page on its own, opened with or without a stored token.
InitAdminPage ==
    /\ hoursData = NullHours
    /\ currentStatus = EmptyStatus
    /\ cards = <<>>
    /\ view = "blank"
    /\ pc = "constructed"
    /\ now = [day |-> "Monday", minutes |-> Earliest(NowMinutes)]
    /\ evaluations = "none"
    /\ form = IdleForm
    /\ probe = NoProbe
    /\ InitCatalog
    /\ admin \in {NewAdminManager(token) : token \in Tokens}
    /\ chat = NewChat
    /\ analytics = NewAnalytics
    /\ widget = NewWidget(480, 1024)

NextAdmin ==
    \/ AdminInit
    \/ HandleLoginEmpty
    \/ AuthErrorTimeout
    \/ HandleLogin
    \/ LoginAnswered
    \/ VerifyAnswered
    \/ DataLoaded
    \/ TrackChange
    \/ ChangePhone
    \/ ChangeEmail
    \/ ChangeHours
    \/ SaveAllChanges
    \/ SaveAnswered
    \/ DiscardChanges
    \/ Logout

SpecAdmin == InitAdminPage /\ [][NextAdmin]_vars

----------------------------------------------------------------------------
(* Properties of the admin page *)

\* C21: the dashboard becomes visible only in the step that receives a login
\* answer with success and a token (which is then stored) or a verification
\* answer with success for a stored token; a visible dashboard has a stored
\* token; a login or verification that fails in any way leaves the dashboard
\* hidden and no token stored.
C21_DashboardOnlyLoggedIn ==
    [][/\ (admin.dashboard = "hidden" /\ admin'.dashboard = "visible") =>
            /\ admin'.answer.arrived /\ admin'.answer.success
            /\ \/ /\ admin.pc = "loggingIn"
                  /\ admin'.answer.token # NoToken
                  /\ admin'.storedToken = admin'.answer.token
               \/ /\ admin.pc = "verifying"
                  /\ admin.storedToken # NoToken
       /\ admin'.dashboard = "visible" => admin'.storedToken # NoToken
       /\ (/\ admin.pc = "loggingIn" /\ admin'.pc # "loggingIn"
           /\ (~admin'.answer.arrived \/ ~admin'.answer.success
                    \/ admin'.answer.token = NoToken)) =>
                (admin'.dashboard = "hidden" /\ admin'.storedToken = NoToken)
       /\ (/\ admin.pc = "verifying" /\ admin'.pc # "verifying"
           /\ (~admin'.answer.arrived \/ ~admin'.answer.success)) =>
                (admin'.dashboard = "hidden" /\ admin'.storedToken = NoToken)]_vars

\* C21 witness: the backend answered a login with success but without a
\* token; the dashboard is hidden and nothing is stored.
C21_Witness ==
    /\ admin.pc = "login"
    /\ admin.answer.arrived /\ admin.answer.success /\ admin.answer.token = NoToken
    /\ admin.dashboard = "hidden"
    /\ admin.storedToken = NoToken
    /\ admin.loginBtn = "enabled"

\* C22: on the page, tracked changes become empty only in the step of a save
\* answered with success or of a confirmed discard (which reloads the page); a
\* save that fails or is answered without success leaves the tracked changes
\* as they are and enables the save button; with no tracked changes no save
\* request is sent.
C22_ClearedOnlyBySave ==
    [][/\ (Len(admin.changedItems) > 0 /\ Len(admin'.changedItems) = 0
                /\ admin'.pc # "left") =>
            \/ /\ admin.saving /\ ~admin'.saving
               /\ admin'.answer.arrived /\ admin'.answer.success
            \/ admin'.pc = "constructed"
       /\ (/\ admin.saving /\ ~admin'.saving /\ admin'.pc = "dashboard"
           /\ (~admin'.answer.arrived \/ ~admin'.answer.success)) =>
                (admin'.changedItems = admin.changedItems /\ admin'.saveBtn = "enabled")
       /\ (~admin.saving /\ Len(admin.changedItems) = 0) => ~admin'.saving]_vars

\* C22 witness: a save of three changes was answered without success; the
\* changes are kept and the button is enabled.
C22_Witness ==
    /\ admin.pc = "dashboard"
    /\ ~admin.saving
    /\ admin.answer.arrived /\ ~admin.answer.success
    /\ admin.toast = "error"
    /\ Len(admin.changedItems) = 3
    /\ admin.saveBtn = "enabled"

\* A tracked change that a payload carries: among its items, its hours or
\* its settings.
PayloadContains(payload, change) ==
    \/ \E j \in 1..Len(payload.items) : payload.items[j] = change.value
    \/ /\ change.key.prefix = "hours"
       /\ \E j \in 1..Len(payload.hours) :
            payload.hours[j] = [key |-> change.key.rest, value |-> change.value]
    \/ /\ change.key.prefix = "settings"
       /\ \E j \in 1..Len(payload.settings) :
            payload.settings[j] = [key |-> change.key.rest, value |-> change.value]

\* C23 (as claimed): every change a successful save removes from changedItems
\* was in the payload of that save.
C23_NoChangeDroppedUnsent ==
    [][(/\ admin.saving /\ ~admin'.saving /\ admin'.pc = "dashboard"
        /\ Len(admin'.changedItems) = 0) =>
            \A i \in 1..Len(admin.changedItems) :
                PayloadContains(admin.payload, admin.changedItems[i])]_vars

\* The change records of the item rows among the tracked changes.
ItemRecords(map) ==
    LET rows == SelectSeq(map, LAMBDA e : e.key.prefix \notin {"hours", "settings"})
    IN  [i \in 1..Len(rows) |-> rows[i].value]

\* C24 (as claimed): the payload a save sends has in items the latest records
\* of the changed items and nothing else, in hours the changed days, and in
\* settings phone and email exactly when one of them changed.
C24_PayloadPartitionsChanges ==
    [][(~admin.saving /\ admin'.saving) =>
        LET map == admin.changedItems
            payload == admin'.payload
        IN  /\ payload.items = ItemRecords(map)
            /\ {payload.hours[j] : j \in 1..Len(payload.hours)} =
                    {[key |-> map[i].key.rest, value |-> map[i].value] :
                        i \in {k \in 1..Len(map) : map[k].key.prefix = "hours"}}
            /\ (Len(payload.settings) > 0) <=>
                    (\E i \in 1..Len(map) : map[i].key.prefix = "settings")
            /\ Len(payload.settings) > 0 =>
                    {payload.settings[j].key : j \in 1..Len(payload.settings)} =
                        {"phone", "email"}]_vars

----------------------------------------------------------------------------
(* The chat of the index page and the analytics queue *)

\* Variant: only the empty message is refused.
SendAcceptedNonEmpty(message, isLoading) == message # ""
\* if (!message || chatState.isLoading) return;
SendAccepted(message, isLoading) == message # "" /\ ~isLoading

\* The texts of sendChatMessage.
DefaultReply == "Thank you for your inquiry. We will respond shortly."
ErrorMsg == "Unable to connect right now. Please call us directly or try again in a moment."

\* data.reply || data.message || the default text
ReplyOf(outcome) == IF outcome.reply # "" THEN outcome.reply ELSE DefaultReply

\* Variant: isLoading is reset at the end of the second then(), not in finally().
LoadingAfterThenOnly(outcome) == ~outcome.ok
\* chatState.isLoading after the promise chain: finally() resets it.
LoadingAfter(outcome) == FALSE

\* The queue reaches this length: trackChatInteraction flushes.
FlushThreshold == 5

\* flushAnalytics(): nothing when the queue is empty, else the events are
\* sent and the queue emptied.
Flushed(an) ==
    IF Len(an.queue) = 0 THEN an ELSE [queue |-> <<>>, batch |-> Len(an.queue)]

\* trackChatInteraction(action, metadata); of an event the queue keeps the type.
TrackChat(an) ==
    LET pushed == [an EXCEPT !.queue = Append(an.queue, "chat_interaction")]
    IN  IF Len(pushed.queue) >= FlushThreshold THEN Flushed(pushed) ELSE pushed

\* trackPageInteraction(action, metadata)
TrackPage(an) == [an EXCEPT !.queue = Append(an.queue, "page_interaction")]

(* Inputs *)

\* #chatInput after trim().
ChatInputs == {"", "Are you open?"}

\* How the fetch ends: an answer with or without a reply, or a failure
\* (network error, HTTP status, timeout after 10 seconds).
ChatOutcomes ==
    {[ok |-> TRUE, reply |-> "We are open."], [ok |-> TRUE, reply |-> ""],
     [ok |-> FALSE, reply |-> ""]}

UserMessages(c) == SelectSeq(c.messages, LAMBDA m : m.role = "user")

(* Operations *)

\* handleSendMessage(): click on #chatSend or Enter in #chatInput.
HandleSendMessage ==
    /\ \E message \in ChatInputs :
        /\ SendAccepted(message, chat.isLoading) => Len(UserMessages(chat)) < MaxSends
        /\ chat' =
            IF ~SendAccepted(message, chat.isLoading)
            THEN [chat EXCEPT !.last = [message |-> message, loading |-> chat.isLoading]]
            ELSE [chat EXCEPT
                    !.last = [message |-> message, loading |-> chat.isLoading],
                    !.isLoading = TRUE,
                    !.sendBtn = "disabled",
                    !.shown = Append(chat.shown, [sender |-> "user", text |-> message]),
                    !.messages = Append(chat.messages, [role |-> "user", content |-> message]),
                    !.requests = Append(chat.requests, message)]
    /\ chat' # chat
    /\ UNCHANGED analytics
    /\ UNCHANGED <<contactVars, formVars, probeVars, catalogVars, adminVars, widgetVars>>

\* The promise chain of sendChatMessage once the fetch has ended: then/then,
\* or catch, and finally.
ChatSettled ==
    /\ Len(chat.requests) > 0
    /\ \E outcome \in ChatOutcomes :
        /\ chat' = [chat EXCEPT
                !.requests = Tail(chat.requests),
                !.messages = IF outcome.ok
                             THEN Append(chat.messages, [role |-> "assistant",
                                                         content |-> ReplyOf(outcome)])
                             ELSE chat.messages,
                !.shown = Append(chat.shown,
                            [sender |-> "bot",
                             text |-> IF outcome.ok THEN ReplyOf(outcome) ELSE ErrorMsg]),
                !.isLoading = LoadingAfter(outcome),
                !.sendBtn = IF LoadingAfter(outcome) THEN "disabled" ELSE "enabled"]
        /\ analytics' = TrackChat(analytics)
    /\ UNCHANGED <<contactVars, formVars, probeVars, catalogVars, adminVars, widgetVars>>

\* trackPageInteraction: a .btn was clicked, or the daily specials were loaded.
TrackPageInteraction ==
    /\ Len(analytics.queue) < MaxQueue
    /\ analytics' = TrackPage(analytics)
    /\ UNCHANGED chat
    /\ UNCHANGED <<contactVars, formVars, probeVars, catalogVars, adminVars, widgetVars>>

\* flushAnalytics() from the 30 second timer or on beforeunload.
FlushAnalytics ==
    /\ Len(analytics.queue) > 0
    /\ analytics' = Flushed(analytics)
    /\ UNCHANGED chat
    /\ UNCHANGED <<contactVars, formVars, probeVars, catalogVars, adminVars, widgetVars>>

\* The index page on its own.
InitIndexPage ==
    /\ hoursData = NullHours
    /\ currentStatus = EmptyStatus
    /\ cards = <<>>
    /\ view = "blank"
    /\ pc = "constructed"
    /\ now = [day |-> "Monday", minutes |-> Earliest(NowMinutes)]
    /\ evaluations = "none"
    /\ form = IdleForm
    /\ probe = NoProbe
    /\ InitCatalog
    /\ InitSite

NextChat ==
    \/ HandleSendMessage
    \/ ChatSettled
    \/ TrackPageInteraction
    \/ FlushAnalytics

SpecChat == InitIndexPage /\ [][NextChat]_vars

\* The fetch of sendChatMessage ends: it is answered, fails, or is aborted by
\* its AbortSignal.timeout(10000).
SpecChatLive == SpecChat /\ WF_vars(ChatSettled)

----------------------------------------------------------------------------
(* Properties of the chat and of the analytics queue *)

BotMessages(c) == SelectSeq(c.shown, LAMBDA m : m.sender = "bot")

\* C25: at most one chat request is in flight; a send attempted with an empty
\* message or while isLoading is true sends nothing and leaves the history
\* and the messages shown as they are.
C25_OneRequestInFlight ==
    [][/\ Len(chat'.requests) <= 1
       /\ (chat'.last # chat.last /\ (chat'.last.message = "" \/ chat'.last.loading)) =>
            /\ chat'.requests = chat.requests
            /\ chat'.messages = chat.messages
            /\ chat'.shown = chat.shown]_vars

\* C25 witness: a message was typed and Enter pressed while the request of
\* the first message is in flight.
C25_Witness ==
    /\ chat.isLoading
    /\ chat.last.loading /\ chat.last.message # ""
    /\ Len(chat.requests) = 1
    /\ Len(chat.messages) = 1

\* C26: every accepted send gets exactly one bot message, and whenever
\* isLoading is true it becomes false again with the send button enabled.
C26_AnsweredAndUnlocked ==
    /\ [](Len(BotMessages(chat)) + (IF chat.isLoading THEN 1 ELSE 0)
            = Len(UserMessages(chat)))
    /\ [](chat.isLoading => <>(~chat.isLoading /\ chat.sendBtn = "enabled"))

\* C26 witness: two sends answered, the second by the error text after a
\* failure; the chat is unlocked.
C26_Witness ==
    /\ ~chat.isLoading /\ chat.sendBtn = "enabled"
    /\ Len(UserMessages(chat)) = 2
    /\ Len(BotMessages(chat)) = 2
    /\ BotMessages(chat)[2].text = ErrorMsg

\* C28 (as claimed): the queue always holds fewer events than the flush threshold.
C28_QueueBelowThreshold == Len(analytics.queue) < FlushThreshold

----------------------------------------------------------------------------
(* getBotResponse of the floating chat widget *)

\* String.prototype.includes
Includes(str, part) ==
    \E i \in 0..(Len(str) - Len(part)) : SubSeq(str, i + 1, i + Len(part)) = part

\* The keywords of the six ifs and the opening of their replies.
MenuKeywords ==
    {<<"m", "e", "n", "u">>,
     <<"f", "o", "o", "d">>,
     <<"e", "a", "t">>,
     <<"r", "e", "s", "t", "a", "u", "r", "a", "n", "t">>}
MenuReply == "Check out our Restaurant Menu section!"
ServicesKeywords ==
    {<<"s", "e", "r", "v", "i", "c", "e">>,
     <<"c", "a", "r", " ", "w", "a", "s", "h">>,
     <<"m", "a", "i", "n", "t", "e", "n", "a", "n", "c", "e">>,
     <<"w", "a", "s", "h">>}
ServicesReply == "We offer professional vehicle services."
ShopKeywords ==
    {<<"s", "h", "o", "p">>,
     <<"b", "u", "y">>,
     <<"p", "r", "o", "d", "u", "c", "t">>,
     <<"s", "u", "p", "e", "r", "m", "a", "r", "k", "e", "t">>}
ShopReply == "Our Supermarket has groceries, snacks, beverages, and supplies."
LocationKeywords ==
    {<<"l", "o", "c", "a", "t", "i", "o", "n">>,
     <<"w", "h", "e", "r", "e">>,
     <<"a", "d", "d", "r", "e", "s", "s">>,
     <<"d", "i", "r", "e", "c", "t", "i", "o", "n">>}
LocationReply == "We're located in Kimana on Loitokitok Road."
HoursKeywords ==
    {<<"h", "o", "u", "r">>,
     <<"o", "p", "e", "n">>,
     <<"c", "l", "o", "s", "e">>}
HoursReply == "Penuel Stopover operates 24/7!"
BookingKeywords ==
    {<<"b", "o", "o", "k">>,
     <<"r", "e", "s", "e", "r", "v", "e">>,
     <<"a", "p", "p", "o", "i", "n", "t", "m", "e", "n", "t">>}
BookingReply == "You can book services through our Contact page."

\* Variant: the test for the hours keywords comes first.
KeywordGroupsHoursFirst ==
    <<[keywords |-> HoursKeywords, reply |-> HoursReply],
      [keywords |-> MenuKeywords, reply |-> MenuReply],
      [keywords |-> ServicesKeywords, reply |-> ServicesReply],
      [keywords |-> ShopKeywords, reply |-> ShopReply],
      [keywords |-> LocationKeywords, reply |-> LocationReply],
      [keywords |-> BookingKeywords, reply |-> BookingReply]>>
\* The ifs of getBotResponse in the order of the code.
KeywordGroups ==
    <<[keywords |-> MenuKeywords, reply |-> MenuReply],
      [keywords |-> ServicesKeywords, reply |-> ServicesReply],
      [keywords |-> ShopKeywords, reply |-> ShopReply],
      [keywords |-> LocationKeywords, reply |-> LocationReply],
      [keywords |-> HoursKeywords, reply |-> HoursReply],
      [keywords |-> BookingKeywords, reply |-> BookingReply]>>

\* The four default replies.
Defaults ==
    <<"Great question! Feel free to explore our website or contact us directly.",
      "I'm here to help! Browse our services - Restaurant, Supermarket, Services, or Contact us.",
      "Thanks for your interest! Is there a specific service you'd like to know more about?",
      "Feel free to check our Services page or contact our team directly.">>

\* The ifs from the i-th on: the reply of the first whose keyword msg
\* includes, or the default chosen by random.
RECURSIVE ResponseFrom(_, _, _)
ResponseFrom(msg, i, random) ==
    IF i > Len(KeywordGroups) THEN Defaults[random + 1]
    ELSE IF \E keyword \in KeywordGroups[i].keywords : Includes(msg, keyword)
         THEN KeywordGroups[i].reply
         ELSE ResponseFrom(msg, i + 1, random)

\* getBotResponse(userMessage); random is Math.floor(Math.random() * defaults.length).
GetBotResponse(userMessage, random) == ResponseFrom(ToLowerCase(userMessage), 1, random)

(* Inputs *)

\* Words of the visitor, in the case they type them.
MessageWords ==
    {<<"M", "E", "N", "U">>,
     <<"G", "r", "e", "a", "t">>,
     <<"W", "a", "s", "h">>,
     <<"s", "h", "o", "p">>,
     <<"W", "h", "e", "r", "e">>,
     <<"O", "P", "E", "N">>,
     <<"b", "o", "o", "k">>,
     <<"h", "e", "l", "l", "o">>,
     <<"C", "a", "r">>,
     <<"t", "h", "a", "n", "k", "s">>,
     <<"R", "e", "s", "e", "r", "v", "e">>,
     <<"p", "r", "i", "c", "e">>}

\* Messages of one word, and of two words with a space between.
BotMessagesIn ==
    MessageWords \cup {first \o <<" ">> \o second : first, second \in MessageWords}

InitBot ==
    /\ hoursData = NullHours
    /\ currentStatus = EmptyStatus
    /\ cards = <<>>
    /\ view = "blank"
    /\ pc = "constructed"
    /\ now = [day |-> "Monday", minutes |-> Earliest(NowMinutes)]
    /\ evaluations = "none"
    /\ form = IdleForm
    /\ InitCatalog
    /\ InitSite
    /\ probe \in [message : BotMessagesIn, result : {"none"}]

\* The timer of sendMessage: getBotResponse(text).
BotResponds ==
    /\ probe.result = "none"
    /\ \E random \in 0..(Len(Defaults) - 1) :
        probe' = [probe EXCEPT !.result = GetBotResponse(probe.message, random)]
    /\ UNCHANGED <<contactVars, formVars, catalogVars, siteVars>>

NextBot == BotResponds

SpecBot == InitBot /\ [][NextBot]_vars

\* A keyword occurs in a message, whatever the case of the letters.
OccursIgnoringCase(keyword, message) ==
    \E i \in 0..(Len(message) - Len(keyword)) :
        SameIgnoringCase(SubSeq(message, i + 1, i + Len(keyword)), keyword)

\* The replies in the order of their keyword groups: menu/food, services/wash,
\* shop/product, location, hours, booking.
RepliesInOrder ==
    <<MenuReply, ServicesReply, ShopReply, LocationReply, HoursReply, BookingReply>>

\* The keywords that lead to a reply.
KeywordsOf(reply) ==
    IF reply = MenuReply THEN MenuKeywords
    ELSE IF reply = ServicesReply THEN ServicesKeywords
    ELSE IF reply = ShopReply THEN ShopKeywords
    ELSE IF reply = LocationReply THEN LocationKeywords
    ELSE IF reply = HoursReply THEN HoursKeywords
    ELSE BookingKeywords

\* The groups, by their place in the order, with a keyword in the message.
GroupsIn(message) ==
    {g \in 1..Len(RepliesInOrder) :
        \E keyword \in KeywordsOf(RepliesInOrder[g]) : OccursIgnoringCase(keyword, message)}

\* C27: the reply is that of the first group, in the order menu/food,
\* services/wash, shop/product, location, hours, booking, with a keyword
\* occurring in the message whatever its case; without any, one of the four defaults.
C27_FirstKeywordGroup ==
    probe.result # "none" =>
        IF GroupsIn(probe.message) = {}
        THEN \E d \in 1..Len(Defaults) : probe.result = Defaults[d]
        ELSE \E g \in GroupsIn(probe.message) :
                /\ \A h \in GroupsIn(probe.message) : g <= h
                /\ probe.result = RepliesInOrder[g]

\* C27 witness: "OPEN MENU" has a keyword of the hours group and one of the
\* menu group, and gets the menu reply.
C27_Witness ==
    /\ probe.result = MenuReply
    /\ GroupsIn(probe.message) = {1, 5}

----------------------------------------------------------------------------
(* toggleChat of the floating chat widgets *)

\* The breakpoint of window.innerWidth <= ... in the two widgets.
Breakpoints == {480, 768}

\* Viewport widths on both sides of each breakpoint.
ViewportWidths == {320, 480, 481, 768, 769, 1024}

\* Scroll positions of the page.
ScrollPositions == {0, 300}

\* parseInt(document.body.getAttribute('data-scroll-pos')) || 0; the attribute
\* holds the number toggleChat wrote, or is missing.
ScrollPosOf(attr) == IF attr = <<>> THEN 0 ELSE attr[1]

\* isMobile, as toggleChat computes it when called.
IsMobile(w) == w.innerWidth <= w.breakpoint

\* toggleChat on a hidden window: show it, and lock the scroll on mobile.
OpenChat(w) ==
    LET shown == [w EXCEPT !.hidden = FALSE, !.active = TRUE] IN
    IF IsMobile(w)
    THEN [shown EXCEPT !.bodyOpen = TRUE,
                       !.scrollPosAttr = <<w.pageYOffset>>,
                       !.bodyTop = <<0 - w.pageYOffset>>]
    ELSE shown

\* toggleChat on a shown window: hide it, and restore the scroll on mobile.
CloseChat(w) ==
    LET hid == [w EXCEPT !.hidden = TRUE, !.active = FALSE] IN
    IF IsMobile(w)
    THEN [hid EXCEPT !.bodyOpen = FALSE,
                     !.bodyTop = <<>>,
                     !.pageYOffset = ScrollPosOf(w.scrollPosAttr)]
    ELSE hid

\* A click on the chat button or on the close button.
ToggleChat ==
    /\ widget' = IF widget.hidden THEN OpenChat(widget) ELSE CloseChat(widget)
    /\ UNCHANGED <<contactVars, formVars, probeVars, catalogVars, adminVars, chatVars>>

\* The viewport changes its width; the resize listener scrolls the messages
\* to the bottom and leaves the window and the body as they are.
Resize ==
    /\ \E width \in ViewportWidths \ {widget.innerWidth} :
        widget' = [widget EXCEPT !.innerWidth = width]
    /\ UNCHANGED <<contactVars, formVars, probeVars, catalogVars, adminVars, chatVars>>

\* The visitor scrolls the page while the body is not locked.
Scroll ==
    /\ ~widget.bodyOpen
    /\ \E position \in ScrollPositions \ {widget.pageYOffset} :
        widget' = [widget EXCEPT !.pageYOffset = position]
    /\ UNCHANGED <<contactVars, formVars, probeVars, catalogVars, adminVars, chatVars>>

InitWidget ==
    /\ hoursData = NullHours
    /\ currentStatus = EmptyStatus
    /\ cards = <<>>
    /\ view = "blank"
    /\ pc = "constructed"
    /\ now = [day |-> "Monday", minutes |-> Earliest(NowMinutes)]
    /\ evaluations = "none"
    /\ form = IdleForm
    /\ probe = NoProbe
    /\ InitCatalog
    /\ admin = NewAdminManager(NoToken)
    /\ chat = NewChat
    /\ analytics = NewAnalytics
    /\ widget \in {NewWidget(breakpoint, width) :
                      breakpoint \in Breakpoints, width \in ViewportWidths}

NextWidget ==
    \/ ToggleChat
    \/ Resize
    \/ Scroll

SpecWidget == InitWidget /\ [][NextWidget]_vars

\* C29: whenever the chat window is hidden, the body carries neither the
\* class penuel-chat-open nor the top offset, whatever toggles and changes of
\* the viewport width came before.
C29_HiddenMeansUnlocked ==
    widget.hidden => (~widget.bodyOpen /\ widget.bodyTop = <<>>)

----------------------------------------------------------------------------
(* Status badges of the catalog cards *)

\* A flag of a catalog entry is true, false, or missing (undefined).
IsTruthyFlag(flag) == flag = "true"

\* flag || true
FlagOrTrue(flag) == IF IsTruthyFlag(flag) THEN flag ELSE "true"

\* level || 0; a level is <<n>>, or <<>> when the entry has none.
LevelOrZero(level) == IF level = <<>> \/ level[1] = 0 THEN 0 ELSE level[1]

\* RetailManager.getStockStatus: the text of the badge.
GetStockStatus(available, stockLevel) ==
    IF ~IsTruthyFlag(available) \/ stockLevel = 0 THEN "Out of Stock"
    ELSE IF stockLevel < 5 THEN "Low Stock"
    ELSE "In Stock"

\* ServicesManager.getServiceStatus at an hour of the day: the text of the badge.
GetServiceStatus(available, hour) ==
    IF ~IsTruthyFlag(available) THEN "Unavailable"
    ELSE IF hour >= 18 \/ hour < 7 THEN "Coming Soon"
    ELSE "Available"

\* The badge createMenuCard and createRetailCard give an entry.
StockBadge(item) ==
    GetStockStatus(FlagOrTrue(item.available), LevelOrZero(item.stock_level))

\* The badge createServiceCard gives an entry at an hour of the day.
ServiceBadge(service, hour) ==
    GetServiceStatus(FlagOrTrue(service.available), hour)

(* Inputs *)

Flags == {"true", "false", "undefined"}
StockLevels == {<<>>, <<0>>, <<3>>, <<5>>, <<10>>}
HoursOfDay == 0..23
CardKinds == {"menu", "product", "service"}

InitCard ==
    /\ hoursData = NullHours
    /\ currentStatus = EmptyStatus
    /\ cards = <<>>
    /\ view = "blank"
    /\ pc = "constructed"
    /\ now = [day |-> "Monday", minutes |-> Earliest(NowMinutes)]
    /\ evaluations = "none"
    /\ form = IdleForm
    /\ InitCatalog
    /\ InitSite
    /\ probe \in [kind : CardKinds, available : Flags, stock_level : StockLevels,
                  hour : HoursOfDay, result : {"none"}]

CreateMenuCard ==
    /\ probe.kind = "menu"
    /\ probe.result = "none"
    /\ probe' = [probe EXCEPT !.result = StockBadge(probe)]
    /\ UNCHANGED <<contactVars, formVars, catalogVars, siteVars>>

CreateRetailCard ==
    /\ probe.kind = "product"
    /\ probe.result = "none"
    /\ probe' = [probe EXCEPT !.result = StockBadge(probe)]
    /\ UNCHANGED <<contactVars, formVars, catalogVars, siteVars>>

CreateServiceCard ==
    /\ probe.kind = "service"
    /\ probe.result = "none"
    /\ probe' = [probe EXCEPT !.result = ServiceBadge(probe, probe.hour)]
    /\ UNCHANGED <<contactVars, formVars, catalogVars, siteVars>>

NextCard ==
    \/ CreateMenuCard
    \/ CreateRetailCard
    \/ CreateServiceCard

SpecCard == InitCard /\ [][NextCard]_vars

\* The badge of an entry that is not available.
UnavailableBadge(kind) == IF kind = "service" THEN "Unavailable" ELSE "Out of Stock"

\* C30: an entry whose available flag is false is rendered with the
\* unavailable badge, Out of Stock for menu items and products and
\* Unavailable for services, whatever its stock level and the hour of the day.
C30_UnavailableShowsBadge ==
    (probe.result # "none" /\ probe.available = "false") =>
        probe.result = UnavailableBadge(probe.kind)

====
